---- MODULE Spec2Model ----
(***************************************************************************)
(* A model of the ONSLIVE space-weather update scripts.                    *)
(*                                                                         *)
(*   Spec      fetchData of scripts/update-data.js (lines 10-273) and its  *)
(*             older version: the sequential fetch / normalise / classify  *)
(*             / write pipeline.                                           *)
(*   SpecNorm  the adapters of fetchData, of its older version and of      *)
(*             fetchNOAAData, each applied to one upstream list of up to   *)
(*             MaxFeedLen entries.                                         *)
(*   SpecJoin  updateAllData in its three versions: the tasks it launches  *)
(*             and the await that joins them.                              *)
(*   SpecTime  updateAllData of scripts/update-data.js (lines 509-551)     *)
(*             with the requests of its tasks and their timers;            *)
(*             SpecTimeFair adds the scheduler's fairness.                 *)
(*   SpecClass the classifiers of fetchData (X-ray class, Dst storm level, *)
(*             aurora level) applied to one value each.                    *)
(*   SpecMeteor updateMeteorData of the meteor snippet (part_001, lines    *)
(*             320-482), run twice on one date.                            *)
(*                                                                         *)
(* Numbers are integers counted in hundredths (6.3 is 630, -55 is -5500).  *)
(* A JavaScript value is a pair <<kind, n>>:                               *)
(*   <<"num", n>>    the number n/100                                      *)
(*   <<"nstr", n>>   a string spelling the number n/100, such as "6.30"    *)
(*   <<"str", i>>    a non-empty string that spells no number (text i)     *)
(*   <<"undef", 0>>  undefined       <<"nan", 0>>  NaN                     *)
(***************************************************************************)
EXTENDS Integers, Sequences, FiniteSets, TLC

VARIABLES
    script,      \* which script's fetchData runs
    pc,          \* position of fetchData in its body
    runState,    \* Idle, Running, Completed, Faulted
    clock,       \* what new Date() reads during the run
    kpIndex,     \* let kpIndex
    solarWind,   \* let solarWind
    solarFlares, \* let solarFlares
    currentKp,   \* const currentKp
    xrayFlux,    \* let xrayFlux
    dstIndex,    \* let dstIndex
    newsItems,   \* const newsItems
    requests,    \* the URLs requested so far, in order
    upstream,    \* what each requested URL answered
    failed,      \* the feeds whose try block caught an error
    files,       \* the data directory: file name -> document
    writes,      \* the writes of this run that succeeded, in order: <<file, status>>
    caught,      \* the error caught by the outer catch
    errAttempt,  \* the error-status document handed to the writer by the catch
    norm,        \* an adapter applied to one upstream list: input, adapter, output
    join,        \* updateAllData: the tasks it launched and where it stands
    timed        \* updateAllData of update-data.js with its requests and timers

vars == <<script, pc, runState, clock, kpIndex, solarWind, solarFlares, currentKp,
          xrayFlux, dstIndex, newsItems, requests, upstream, failed, files, writes,
          caught, errAttempt, norm, join, timed>>

\* the state of the other programs of the repository, which fetchData leaves alone
others == <<norm, join, timed>>
\* the state of fetchData
pipeline == <<script, pc, runState, clock, kpIndex, solarWind, solarFlares, currentKp,
              xrayFlux, dstIndex, newsItems, requests, upstream, failed, files, writes,
              caught, errAttempt>>

----------------------------------------------------------------------------
(* Bounds of the model *)

MaxClock == 2

----------------------------------------------------------------------------
(* JavaScript values *)

Num(n) == <<"num", n>>
NumStr(n) == <<"nstr", n>>
Str(i) == <<"str", i>>
Undef == <<"undef", 0>>
NaN == <<"nan", 0>>
StrNaN == Str(0)

\* whole units to hundredths
H(n) == n * 100

IsNum(v) == v[1] = "num"

parseFloat(v) ==
    CASE v[1] = "num" -> v
      [] v[1] = "nstr" -> Num(v[2])
      [] OTHER -> NaN

\* ToBoolean: 0, NaN and undefined are falsy, a non-empty string is truthy
Truthy(v) ==
    CASE v[1] = "num" -> v[2] # 0
      [] v[1] = "nstr" -> TRUE
      [] v[1] = "str" -> TRUE
      [] OTHER -> FALSE

\* a || b
OrElse(a, b) == IF Truthy(a) THEN a ELSE b

\* ToNumber, as the relational and arithmetic operators apply it
ToNumber(v) ==
    CASE v[1] = "num" -> v
      [] v[1] = "nstr" -> Num(v[2])
      [] OTHER -> NaN

\* v >= n for a value v and a number of hundredths n (false for NaN)
GE(v, n) == IsNum(ToNumber(v)) /\ ToNumber(v)[2] >= n

\* v <= n
LE(v, n) == IsNum(ToNumber(v)) /\ ToNumber(v)[2] <= n

\* a / b rounded to the nearest integer, halves up (a >= 0, b > 0)
RoundDiv(a, b) == (2 * a + b) \div (2 * b)

\* Number.prototype.toFixed(1): the string of the value rounded to one decimal
ToFixed1(v) ==
    IF IsNum(v)
    THEN IF v[2] >= 0
         THEN NumStr(10 * RoundDiv(v[2], 10))
         ELSE NumStr(-(10 * RoundDiv(-v[2], 10)))
    ELSE StrNaN

Plus(v, n) == IF IsNum(v) THEN Num(v[2] + n) ELSE NaN

----------------------------------------------------------------------------
(* Upstream entries: a positional array or a keyed object *)

\* an entry holds its values as triples <<key, kind, n>>; the key of a
\* positional value is ""
Arr(vals) ==
    [shape |-> "arr",
     vals |-> [i \in DOMAIN vals |-> <<"", vals[i][1], vals[i][2]>>]]
\* fields: a sequence of <<key, value>>
Obj(fields) ==
    [shape |-> "obj",
     vals |-> [i \in DOMAIN fields |-> <<fields[i][1], fields[i][2][1], fields[i][2][2]>>]]
Null == [shape |-> "null", vals |-> <<>>]

\* the elements of an array entry
Elems(item) == [i \in DOMAIN item.vals |-> <<item.vals[i][2], item.vals[i][3]>>]

\* item[i], zero-based
Idx(item, i) ==
    IF item.shape = "arr" /\ (i + 1) \in DOMAIN item.vals
    THEN Elems(item)[i + 1]
    ELSE Undef

\* item.k
Key(item, k) ==
    IF item.shape = "obj" /\ \E i \in DOMAIN item.vals : item.vals[i][1] = k
    THEN LET i == CHOOSE j \in DOMAIN item.vals : item.vals[j][1] = k
         IN  <<item.vals[i][2], item.vals[i][3]>>
    ELSE Undef

\* Array.prototype.slice(-n)
LastN(s, n) ==
    IF Len(s) <= n THEN s ELSE SubSeq(s, Len(s) - n + 1, Len(s))

\* Array.prototype.slice(0, n)
FirstN(s, n) ==
    IF Len(s) <= n THEN s ELSE SubSeq(s, 1, n)

\* the outcome of a try block: a value, or a thrown error
Ok(v) == [ok |-> TRUE, val |-> v]
Throw == [ok |-> FALSE, val |-> <<>>]

\* an upstream response: the request fails (network, timeout, HTTP status),
\* or answers a body that is no list, or answers a list
ErrorResp == [kind |-> "error", items |-> <<>>]
NullResp == [kind |-> "null", items |-> <<>>]
ListResp(items) == [kind |-> "list", items |-> items]

\* text: what new Date().toISOString() yields at clock c, and upstream time tags
ISO(c) == Str(-c)
TimeTag(i) == Str(i)

\* JSON.stringify writes NaN, and undefined inside an array, as null
JNull == <<"null", 0>>
Json(v) == IF v[1] \in {"nan", "undef"} THEN JNull ELSE v
JsonArr(a) == [i \in DOMAIN a |-> Json(a[i])]
JsonArrArr(a) == [i \in DOMAIN a |-> JsonArr(a[i])]

----------------------------------------------------------------------------
(* Program constants *)

KpWindow == 24
FlareWindow == 10
NewsLimit == 3
\* X-ray flux is counted in units of 1e-11 W/m^2
XThreshold == 100000
MThreshold == 10000
CThreshold == 1000
BThreshold == 100
ADivisor == 10

----------------------------------------------------------------------------
(* fetchData, scripts/update-data.js: the adapters *)

HasNull(items) == \E i \in DOMAIN items : items[i].shape = "null"

\* the callback of kpResponse.data.map
KpItem(item) ==
    IF item.shape = "arr"
    THEN Elems(item)
    ELSE << OrElse(Key(item, "time_tag"), Key(item, "timestamp")),
            OrElse(parseFloat(Key(item, "kp")), Num(0)),
            OrElse(parseFloat(Key(item, "estimated_kp")), Num(0)),
            NumStr(0) >>

\* the body of the Kp try block: what kpIndex is assigned, or a throw
KpAdapter(resp) ==
    IF resp.kind = "error" \/ resp.kind = "null" \/ HasNull(resp.items)
    THEN Throw
    ELSE Ok(LastN([i \in DOMAIN resp.items |-> KpItem(resp.items[i])], KpWindow))

\* the body of the solar-wind try block, given the current solarWind
WindAdapter(resp, cur, now) ==
    IF resp.kind = "error" \/ resp.kind = "null"
    THEN Throw
    ELSE IF Len(resp.items) > 0
         THEN LET latest == resp.items[Len(resp.items)]
              IN  IF latest.shape = "null"
                  THEN Throw
                  ELSE Ok(<< OrElse(Key(latest, "time_tag"), now),
                             OrElse(parseFloat(Key(latest, "density")), Num(0)),
                             OrElse(parseFloat(Key(latest, "speed")), Num(0)),
                             OrElse(parseFloat(Key(latest, "temperature")), Num(0)) >>)
         ELSE Ok(cur)

\* flareResponse.data.slice(-10), for the primary and for the backup endpoint
FlareAdapter(resp) ==
    IF resp.kind = "error" \/ resp.kind = "null"
    THEN Throw
    ELSE Ok(LastN(resp.items, FlareWindow))

\* a faulty variant: the magnitude is cut to one decimal, not rounded
FluxMagnitudeTruncated(flux, divisor) ==
    LET f == ToNumber(flux)
    IN  IF IsNum(f) /\ f[2] >= 0 THEN NumStr(10 * ((f[2] * 10) \div divisor)) ELSE StrNaN

\* (flux / divisor).toFixed(1)
FluxMagnitude(flux, divisor) ==
    LET f == ToNumber(flux)
    IN  IF IsNum(f)
        THEN IF f[2] >= 0
             THEN NumStr(10 * RoundDiv(f[2] * 10, divisor))
             ELSE NumStr(-(10 * RoundDiv((-f[2]) * 10, divisor)))
        ELSE StrNaN

\* a faulty variant: a flux on a threshold falls into the lower class
XrayClassStrict(flux) ==
    IF GE(flux, XThreshold + 1) THEN <<"X", FluxMagnitude(flux, XThreshold)>>
    ELSE IF GE(flux, MThreshold + 1) THEN <<"M", FluxMagnitude(flux, MThreshold)>>
    ELSE IF GE(flux, CThreshold + 1) THEN <<"C", FluxMagnitude(flux, CThreshold)>>
    ELSE IF GE(flux, BThreshold + 1) THEN <<"B", FluxMagnitude(flux, BThreshold)>>
    ELSE <<"A", FluxMagnitude(flux, ADivisor)>>

\* the classification of a flux into letter and magnitude
XrayClass(flux) ==
    IF GE(flux, XThreshold) THEN <<"X", FluxMagnitude(flux, XThreshold)>>
    ELSE IF GE(flux, MThreshold) THEN <<"M", FluxMagnitude(flux, MThreshold)>>
    ELSE IF GE(flux, CThreshold) THEN <<"C", FluxMagnitude(flux, CThreshold)>>
    ELSE IF GE(flux, BThreshold) THEN <<"B", FluxMagnitude(flux, BThreshold)>>
    ELSE <<"A", FluxMagnitude(flux, ADivisor)>>

\* the body of the X-ray try block, given the current xrayFlux
XrayAdapter(resp, cur) ==
    IF resp.kind = "error" \/ resp.kind = "null"
    THEN Throw
    ELSE IF Len(resp.items) > 0
         THEN LET latestXray == resp.items[Len(resp.items)]
              IN  IF latestXray.shape = "null"
                  THEN Throw
                  ELSE Ok(XrayClass(OrElse(Key(latestXray, "flux"), Num(0))))
         ELSE Ok(cur)

\* the body of the Dst try block, given the current dstIndex
DstAdapter(resp, cur) ==
    IF resp.kind = "error" \/ resp.kind = "null"
    THEN Throw
    ELSE IF Len(resp.items) > 0
         THEN LET latestDst == resp.items[Len(resp.items)]
              IN  IF latestDst.shape = "null"
                  THEN Throw
                  ELSE Ok(OrElse(parseFloat(Idx(latestDst, 1)), Num(0)))
         ELSE Ok(cur)

\* an RSS <item>: title, link and description are a text, or Undef when the
\* tag is missing; ChannelTitle is a title that includes 'NASA Breaking News'
ChannelTitle == Str(99)
EmptyStr == <<"empty", 0>>
NasaGov == <<"url", 1>>
RepoUrl == <<"url", 2>>
Summary(desc) == <<"summary", desc[2]>>

NewsKeep(item) == Truthy(item.title) /\ item.title # ChannelTitle

NewsItem(item, now) ==
    [title |-> item.title,
     link |-> IF item.link # Undef THEN item.link ELSE NasaGov,
     source |-> "NASA",
     date |-> now,
     summary |-> IF item.desc # Undef THEN Summary(item.desc) ELSE EmptyStr]

RECURSIVE NewsPush(_, _)
NewsPush(items, now) ==
    IF items = <<>>
    THEN <<>>
    ELSE LET rest == NewsPush(Tail(items), now)
         IN  IF NewsKeep(Head(items))
             THEN <<NewsItem(Head(items), now)>> \o rest
             ELSE rest

\* the body of the news try block: the items pushed, or a throw
NewsAdapter(resp, now) ==
    IF resp.kind = "error" \/ resp.kind = "null"
    THEN Throw
    ELSE Ok(NewsPush(FirstN(resp.items, NewsLimit), now))

Placeholder(now) ==
    [title |-> Str(98), link |-> RepoUrl, source |-> "Dashboard",
     date |-> now, summary |-> <<"summary", 0>>]

----------------------------------------------------------------------------
(* fetchData, scripts/update-data.js: classification and documents *)

\* a faulty variant: the length guard answers NaN instead of 0
CurrentKpUnguarded(kp) ==
    IF Len(kp) > 0
    THEN parseFloat(IF 2 \in DOMAIN kp[Len(kp)] THEN kp[Len(kp)][2] ELSE Undef)
    ELSE NaN

\* a faulty variant: the first entry is read instead of the last
CurrentKpFirst(kp) ==
    IF Len(kp) > 0
    THEN parseFloat(IF 2 \in DOMAIN kp[1] THEN kp[1][2] ELSE Undef)
    ELSE Num(0)

CurrentKp(kp) ==
    IF Len(kp) > 0
    THEN parseFloat(IF 2 \in DOMAIN kp[Len(kp)] THEN kp[Len(kp)][2] ELSE Undef)
    ELSE Num(0)

\* a faulty variant: the cut points of level and probability are swapped
AuroraLevelSwapped(k) ==
    IF GE(k, H(6)) THEN "HIGH" ELSE IF GE(k, H(5)) THEN "MODERATE" ELSE "LOW"

AuroraLevel(k) ==
    IF GE(k, H(6)) THEN "HIGH" ELSE IF GE(k, H(4)) THEN "MODERATE" ELSE "LOW"

Visibility(k) ==
    IF GE(k, H(5))
    THEN "Aurora may be visible at mid-latitudes tonight."
    ELSE "Aurora activity is quiet."

AuroraDoc(k, now) ==
    [forecast |-> [kp |-> ToFixed1(k),
                   level |-> AuroraLevel(k),
                   visibility |-> Visibility(k),
                   oval |-> IF GE(k, H(4)) THEN "expanded" ELSE "near normal",
                   next |-> ToFixed1(Plus(k, 50))],
     kpIndex |-> Json(k),
     updated |-> now,
     source |-> "NOAA Aurora Forecast",
     probability |-> IF GE(k, H(5)) THEN "High" ELSE "Low",
     bestViewing |-> IF GE(k, H(4))
                     THEN "Late evening to early morning"
                     ELSE "Not favorable"]

NoaaDoc(kp, wind, flares, now) ==
    [kpIndex |-> JsonArrArr(kp),
     solarWind |-> JsonArr(wind),
     solarFlares |-> flares,
     updated |-> now,
     source |-> "NOAA SWPC"]

getXrayDescription(fluxClass) ==
    LET letter == fluxClass[1]
        value == parseFloat(fluxClass[2])
    IN  CASE letter = "X" -> IF GE(value, H(10))
                             THEN "Extreme solar flare activity"
                             ELSE "Major solar flare activity"
          [] letter = "M" -> "Moderate solar flare activity"
          [] letter = "C" -> "Minor solar flare activity"
          [] letter = "B" -> "Very low solar activity"
          [] letter = "A" -> "Background solar activity"
          [] OTHER -> "Normal solar activity"

\* a faulty variant: the cut points compare with < instead of <=
getDstStormLevelStrict(dst) ==
    IF LE(dst, H(-100) - 1) THEN "Severe"
    ELSE IF LE(dst, H(-50) - 1) THEN "Strong"
    ELSE IF LE(dst, H(-30) - 1) THEN "Moderate"
    ELSE IF LE(dst, H(-20) - 1) THEN "Minor"
    ELSE "Quiet"

getDstStormLevel(dst) ==
    IF LE(dst, H(-100)) THEN "Severe"
    ELSE IF LE(dst, H(-50)) THEN "Strong"
    ELSE IF LE(dst, H(-30)) THEN "Moderate"
    ELSE IF LE(dst, H(-20)) THEN "Minor"
    ELSE "Quiet"

getDstDescription(dst) ==
    IF LE(dst, H(-100)) THEN "Severe geomagnetic storm in progress"
    ELSE IF LE(dst, H(-50)) THEN "Strong geomagnetic storm ongoing"
    ELSE IF LE(dst, H(-30)) THEN "Moderate geomagnetic disturbance"
    ELSE IF LE(dst, H(-20)) THEN "Minor geomagnetic activity"
    ELSE "Geomagnetic conditions quiet"

XrayDoc(x, now) ==
    [current |-> x,
     numeric |-> OrElse(parseFloat(x[2]), Num(0)),
     class |-> x[1],
     updated |-> now,
     description |-> getXrayDescription(x)]

DstDoc(dst, now) ==
    [current |-> dst,
     updated |-> now,
     stormLevel |-> getDstStormLevel(dst),
     description |-> getDstDescription(dst)]

DataSources ==
    << "NOAA Space Weather Prediction Center", "NASA GOES Satellite Data",
       "Real-time Aurora Forecast", "Geomagnetic Storm Monitoring" >>

StatusDoc(k, x, dst, wind, flares, now) ==
    [lastUpdate |-> now,
     status |-> "success",
     message |-> "All space weather data updated successfully",
     dataSources |-> DataSources,
     metrics |-> [kpIndex |-> Json(k),
                  xrayFlux |-> x,
                  dstIndex |-> dst,
                  solarWindSpeed |-> IF Len(wind) > 2 THEN wind[3] ELSE Num(0),
                  flareCount |-> Len(flares)]]

\* a faulty variant: the error status carries a fixed text instead of error.message
ErrorStatusDocFixedMessage(message, now) ==
    [lastUpdate |-> now, status |-> "error", message |-> "Update failed"]

ErrorStatusDoc(message, now) ==
    [lastUpdate |-> now, status |-> "error", message |-> message]

\* a faulty variant: no placeholder is pushed
NewsDocNoPlaceholder(items, now) == items

\* what newsItems holds when news.json is written
NewsDoc(items, now) ==
    IF Len(items) = 0 THEN <<Placeholder(now)>> ELSE items

----------------------------------------------------------------------------
(* The upstream responses the run is given *)

KpArrEntry(i, k) == Arr(<<TimeTag(i), NumStr(k), NumStr(k), NumStr(H(8))>>)
KpObjEntry(i, k) ==
    Obj(<< <<"time_tag", TimeTag(i)>>, <<"kp", NumStr(k)>>,
           <<"estimated_kp", NumStr(k)>> >>)
\* the header row of the NOAA product: column names
KpHeader == Arr(<<Str(31), Str(32), Str(33), Str(34)>>)

WindObjEntry(i, d, s, t) ==
    Obj(<< <<"time_tag", TimeTag(i)>>, <<"density", NumStr(d)>>,
           <<"speed", NumStr(s)>>, <<"temperature", NumStr(t)>> >>)
WindArrEntry(i, d, s, t) == Arr(<<TimeTag(i), NumStr(d), NumStr(s), NumStr(t)>>)

Flare(i) == Obj(<< <<"begin_time", TimeTag(i)>>, <<"max_class", Str(50 + i)>> >>)

XrayEntry(i, f) == Obj(<< <<"time_tag", TimeTag(i)>>, <<"flux", f>> >>)

DstArrEntry(i, d) == Arr(<<TimeTag(i), NumStr(d)>>)
DstObjEntry(i, d) == Obj(<< <<"time_tag", TimeTag(i)>>, <<"dst", NumStr(d)>> >>)

RssItem(t, l, d) == [title |-> t, link |-> l, desc |-> d]

Responses(feeds) == {ErrorResp, NullResp} \cup {ListResp(f) : f \in feeds}

KpFeeds ==
    { <<>>,
      <<KpArrEntry(1, 500), KpArrEntry(2, 630)>>,
      <<KpObjEntry(1, 700), KpObjEntry(2, 400)>>,
      <<KpHeader>>,
      <<KpArrEntry(1, 233), Null>> }

WindFeeds ==
    { <<>>,
      <<WindObjEntry(1, 510, 40000, 10000000)>>,
      <<WindArrEntry(1, 510, 40000, 10000000)>> }

FlareFeeds == { <<>>, <<Flare(1)>> }
BackupFeeds == { <<>>, <<Flare(2)>> }

XrayFeeds ==
    { <<>>,
      <<XrayEntry(1, Num(500)), XrayEntry(2, Num(15000))>>,
      <<XrayEntry(1, Str(35))>> }

DstFeeds ==
    { <<>>,
      <<DstArrEntry(1, H(-20)), DstArrEntry(2, H(-55))>>,
      <<DstObjEntry(1, H(-55))>> }

NewsFeeds ==
    { <<>>,
      <<RssItem(ChannelTitle, Str(20), Str(20)), RssItem(Str(21), Str(22), Str(23))>>,
      <<RssItem(Str(24), Undef, Undef)>> }

\* fs.writeFileSync fails before it opens the file, or while it writes it
WriteErrs == {"EACCES", "ENOSPC"}

Files == {"noaa-data", "aurora", "news", "update-status", "xray-data", "dst-data"}
Feeds == {"kp", "wind", "flares", "xray", "dst", "news"}

\* a document left in the data directory by an earlier run
PrevDoc == [run |-> "previous", status |-> "success"]
\* what a write that failed half-way leaves of its file
Truncated == [run |-> "truncated", status |-> "none"]
NoDoc == [run |-> "none", status |-> "none"]

----------------------------------------------------------------------------
(* fetchData, scripts/update-data.js lines 10-273 *)

Urls ==
    {"noaa-planetary-k-index.json", "plasma-7-day.json", "goes-xray-flares.json",
     "solar-flare.json", "xrays-7-day.json", "kyoto-dst.json", "breaking_news.rss"}

\* what a request answered: it failed (or its body was no list), an empty list,
\* or a list with entries
Outcome(resp) ==
    IF resp.kind = "list"
    THEN IF Len(resp.items) = 0 THEN "empty" ELSE "data"
    ELSE "failed"

PipelineInit ==
    /\ script = "none"
    /\ pc = "idle"
    /\ runState = "Idle"
    /\ clock \in 1..MaxClock
    /\ kpIndex = <<>>
    /\ solarWind = <<>>
    /\ solarFlares = <<>>
    /\ currentKp = Num(0)
    /\ xrayFlux = <<"A", NumStr(0)>>
    /\ dstIndex = Num(0)
    /\ newsItems = <<>>
    /\ requests = <<>>
    /\ upstream = [u \in Urls |-> "none"]
    /\ failed = {}
    /\ files = [f \in Files |-> PrevDoc]
    /\ writes = <<>>
    /\ caught = "none"
    /\ errAttempt = NoDoc

NormIdle == [op |-> "none"]
JoinIdle == [pc |-> "none"]
TimedIdle == [pc |-> "none"]

Init ==
    /\ PipelineInit
    /\ norm = NormIdle
    /\ join = JoinIdle
    /\ timed = TimedIdle

locals == <<kpIndex, solarWind, solarFlares, currentKp, xrayFlux, dstIndex, newsItems>>
store == <<files, writes, caught, errAttempt>>

\* one try block around an upstream request: the adapter's result is assigned,
\* or the error is caught and logged
Settle(feed, url, resp, result) ==
    /\ requests' = Append(requests, url)
    /\ upstream' = [upstream EXCEPT ![url] = Outcome(resp)]
    /\ failed' = IF result.ok THEN failed ELSE failed \cup {feed}

\* a faulty variant: a file that exists already keeps its content
WriteFileSyncKeepsOld(name, doc, next) ==
    /\ files' = files
    /\ writes' = Append(writes, <<name, IF name = "update-status" THEN doc.status ELSE "-">>)
    /\ pc' = next
    /\ caught' = caught

\* fs.writeFileSync(name, JSON.stringify(doc)) inside the outer try
WriteFileSync(name, doc, next) ==
    \/ /\ files' = [files EXCEPT ![name] = doc]
       /\ writes' = Append(writes, <<name, IF name = "update-status" THEN doc.status ELSE "-">>)
       /\ pc' = next
       /\ caught' = caught
    \/ \E e \in WriteErrs :
          /\ files' = IF e = "ENOSPC" THEN [files EXCEPT ![name] = Truncated] ELSE files
          /\ writes' = writes
          /\ pc' = "catch"
          /\ caught' = e

Start ==
    /\ pc = "idle"
    /\ pc' = "kp"
    /\ script' = "update-data.js"
    /\ runState' = "Running"
    /\ UNCHANGED others
    /\ UNCHANGED <<clock, locals, requests, upstream, failed, store>>

FetchKp ==
    /\ pc = "kp"
    /\ \E resp \in Responses(KpFeeds) :
          LET r == KpAdapter(resp)
          IN  /\ kpIndex' = IF r.ok THEN r.val ELSE kpIndex
              /\ Settle("kp", "noaa-planetary-k-index.json", resp, r)
    /\ pc' = "wind"
    /\ UNCHANGED others
    /\ UNCHANGED <<script, runState, clock, solarWind, solarFlares, currentKp, xrayFlux,
                   dstIndex, newsItems, store>>

FetchWind ==
    /\ pc = "wind"
    /\ \E resp \in Responses(WindFeeds) :
          LET r == WindAdapter(resp, solarWind, ISO(clock))
          IN  /\ solarWind' = IF r.ok THEN r.val ELSE solarWind
              /\ Settle("wind", "plasma-7-day.json", resp, r)
    /\ pc' = "flares"
    /\ UNCHANGED others
    /\ UNCHANGED <<script, runState, clock, kpIndex, solarFlares, currentKp, xrayFlux,
                   dstIndex, newsItems, store>>

\* the request to the primary flare endpoint; an empty list sends the run on to
\* the backup endpoint, an error to the catch of the try block
FetchFlares ==
    /\ pc = "flares"
    /\ \E resp \in Responses(FlareFeeds) :
          LET r == FlareAdapter(resp)
          IN  /\ solarFlares' = IF r.ok THEN r.val ELSE solarFlares
              /\ Settle("flares", "goes-xray-flares.json", resp, r)
              /\ pc' = IF r.ok /\ Len(r.val) = 0 THEN "backup" ELSE "wNoaa"
    /\ UNCHANGED others
    /\ UNCHANGED <<script, runState, clock, kpIndex, solarWind, currentKp, xrayFlux,
                   dstIndex, newsItems, store>>

FetchFlaresBackup ==
    /\ pc = "backup"
    /\ \E resp \in Responses(BackupFeeds) :
          LET r == FlareAdapter(resp)
          IN  /\ solarFlares' = IF r.ok THEN r.val ELSE solarFlares
              /\ Settle("flares", "solar-flare.json", resp, r)
    /\ pc' = "wNoaa"
    /\ UNCHANGED others
    /\ UNCHANGED <<script, runState, clock, kpIndex, solarWind, currentKp, xrayFlux,
                   dstIndex, newsItems, store>>

WriteNoaa ==
    /\ pc = "wNoaa"
    /\ WriteFileSync("noaa-data",
                     NoaaDoc(kpIndex, solarWind, solarFlares, ISO(clock)), "wAurora")
    /\ UNCHANGED others
    /\ UNCHANGED <<script, runState, clock, locals, requests, upstream, failed, errAttempt>>

WriteAurora ==
    /\ pc = "wAurora"
    /\ currentKp' = CurrentKp(kpIndex)
    /\ WriteFileSync("aurora", AuroraDoc(CurrentKp(kpIndex), ISO(clock)), "xray")
    /\ UNCHANGED others
    /\ UNCHANGED <<script, runState, clock, kpIndex, solarWind, solarFlares, xrayFlux,
                   dstIndex, newsItems, requests, upstream, failed, errAttempt>>

FetchXray ==
    /\ pc = "xray"
    /\ \E resp \in Responses(XrayFeeds) :
          LET r == XrayAdapter(resp, xrayFlux)
          IN  /\ xrayFlux' = IF r.ok THEN r.val ELSE xrayFlux
              /\ Settle("xray", "xrays-7-day.json", resp, r)
    /\ pc' = "dst"
    /\ UNCHANGED others
    /\ UNCHANGED <<script, runState, clock, kpIndex, solarWind, solarFlares, currentKp,
                   dstIndex, newsItems, store>>

\* a faulty variant: the Dst request stands outside any inner try block
FetchDstNoTry ==
    /\ pc = "dst"
    /\ \E resp \in Responses(DstFeeds) :
          LET r == DstAdapter(resp, dstIndex)
          IN  /\ dstIndex' = IF r.ok THEN r.val ELSE dstIndex
              /\ Settle("dst", "kyoto-dst.json", resp, r)
              /\ pc' = IF r.ok THEN "news" ELSE "catch"
              /\ caught' = IF r.ok THEN caught ELSE "Request failed"
    /\ UNCHANGED others
    /\ UNCHANGED <<script, runState, clock, kpIndex, solarWind, solarFlares, currentKp,
                   xrayFlux, newsItems, files, writes, errAttempt>>

FetchDst ==
    /\ pc = "dst"
    /\ \E resp \in Responses(DstFeeds) :
          LET r == DstAdapter(resp, dstIndex)
          IN  /\ dstIndex' = IF r.ok THEN r.val ELSE dstIndex
              /\ Settle("dst", "kyoto-dst.json", resp, r)
    /\ pc' = "news"
    /\ UNCHANGED others
    /\ UNCHANGED <<script, runState, clock, kpIndex, solarWind, solarFlares, currentKp,
                   xrayFlux, newsItems, store>>

FetchNews ==
    /\ pc = "news"
    /\ \E resp \in Responses(NewsFeeds) :
          LET r == NewsAdapter(resp, ISO(clock))
          IN  /\ newsItems' = IF r.ok THEN r.val ELSE newsItems
              /\ Settle("news", "breaking_news.rss", resp, r)
    /\ pc' = "wNews"
    /\ UNCHANGED others
    /\ UNCHANGED <<script, runState, clock, kpIndex, solarWind, solarFlares, currentKp,
                   xrayFlux, dstIndex, store>>

\* the placeholder is pushed, then news.json is written
WriteNews ==
    /\ pc = "wNews"
    /\ newsItems' = NewsDoc(newsItems, ISO(clock))
    /\ WriteFileSync("news", NewsDoc(newsItems, ISO(clock)), "wStatus")
    /\ UNCHANGED others
    /\ UNCHANGED <<script, runState, clock, kpIndex, solarWind, solarFlares, currentKp,
                   xrayFlux, dstIndex, requests, upstream, failed, errAttempt>>

WriteStatus ==
    /\ pc = "wStatus"
    /\ WriteFileSync("update-status",
                     StatusDoc(currentKp, xrayFlux, dstIndex, solarWind, solarFlares,
                               ISO(clock)),
                     "wXray")
    /\ UNCHANGED others
    /\ UNCHANGED <<script, runState, clock, locals, requests, upstream, failed, errAttempt>>

WriteXray ==
    /\ pc = "wXray"
    /\ WriteFileSync("xray-data", XrayDoc(xrayFlux, ISO(clock)), "wDst")
    /\ UNCHANGED others
    /\ UNCHANGED <<script, runState, clock, locals, requests, upstream, failed, errAttempt>>

WriteDst ==
    /\ pc = "wDst"
    /\ WriteFileSync("dst-data", DstDoc(dstIndex, ISO(clock)), "done")
    /\ runState' = IF pc' = "done" THEN "Completed" ELSE runState
    /\ UNCHANGED others
    /\ UNCHANGED <<script, clock, locals, requests, upstream, failed, errAttempt>>

\* a faulty variant: the outer catch only logs the error
CatchErrorLogOnly ==
    /\ pc = "catch"
    /\ pc' = IF script = "update-data.js" THEN "exited" ELSE "returned"
    /\ runState' = "Faulted"
    /\ UNCHANGED others
    /\ UNCHANGED <<script, clock, locals, requests, upstream, failed, store>>

\* the outer catch: the error status is written, then process.exit(1) (the
\* older script returns instead); a failure of this write leaves the promise of
\* fetchData rejected
CatchError ==
    /\ pc = "catch"
    /\ errAttempt' = ErrorStatusDoc(caught, ISO(clock))
    /\ \/ /\ files' = [files EXCEPT !["update-status"] = ErrorStatusDoc(caught, ISO(clock))]
          /\ writes' = Append(writes, <<"update-status", "error">>)
          /\ pc' = IF script = "update-data.js" THEN "exited" ELSE "returned"
       \/ \E e \in WriteErrs :
             /\ files' = IF e = "ENOSPC"
                         THEN [files EXCEPT !["update-status"] = Truncated]
                         ELSE files
             /\ writes' = writes
             /\ pc' = "crashed"
    /\ runState' = "Faulted"
    /\ UNCHANGED others
    /\ UNCHANGED <<script, clock, locals, requests, upstream, failed, caught>>

----------------------------------------------------------------------------
(* fetchData of the older script, unnamed/part_002 lines 10-134 *)

SimpleFlareLimit == 10
SimpleKpWindow == 24
SimpleNewsLimit == 5

SimpleFlareAdapter(resp) ==
    IF resp.kind # "list" THEN Throw ELSE Ok(FirstN(resp.items, SimpleFlareLimit))

SimpleKpAdapter(resp) ==
    IF resp.kind # "list" THEN Throw ELSE Ok(LastN(resp.items, SimpleKpWindow))

SimpleWindAdapter(resp, cur) ==
    IF resp.kind # "list"
    THEN Throw
    ELSE IF Len(resp.items) > 0 THEN Ok(resp.items[Len(resp.items)]) ELSE Ok(cur)

\* an <item> the expression matches: title, link, pubDate and description
SimpleRss(t, l, d, x) == [title |-> t, link |-> l, pubDate |-> d, desc |-> x]

SimpleNewsItem(item) ==
    [title |-> item.title, link |-> item.link, date |-> item.pubDate,
     source |-> "NASA", summary |-> Summary(item.desc)]

SimpleNewsAdapter(resp) ==
    IF resp.kind # "list"
    THEN Throw
    ELSE LET m == FirstN(resp.items, SimpleNewsLimit)
         IN  Ok([i \in DOMAIN m |-> SimpleNewsItem(m[i])])

SimpleNewsFeeds ==
    { <<>>, <<SimpleRss(Str(21), Str(22), Str(25), Str(23))>> }

SimpleNoaaDoc(flares, kp, wind, now) ==
    [solarFlares |-> flares, kpIndex |-> kp, solarWind |-> wind,
     updated |-> now, source |-> "NOAA SWPC"]

\* building auroraData reads kpIndex[kpIndex.length - 1].kp
SimpleAuroraThrows(kp) == Len(kp) > 0 /\ kp[Len(kp)].shape = "null"

SimpleAuroraDoc(kp, now) ==
    [forecast |-> IF Len(kp) > 0
                  THEN [text |-> "Current Kp index",
                        kp |-> Key(kp[Len(kp)], "kp"),
                        activity |-> IF GE(Key(kp[Len(kp)], "kp"), H(5))
                                     THEN "elevated" ELSE "normal"]
                  ELSE [text |-> "Aurora forecast data is currently updating.",
                        kp |-> Undef,
                        activity |-> "none"],
     updated |-> now,
     source |-> "NOAA Space Weather"]

SimpleStatusDoc(now) ==
    [lastUpdate |-> now, status |-> "success",
     message |-> "All data updated successfully",
     dataSources |-> <<"NOAA SWPC", "NASA">>]

StartSimple ==
    /\ pc = "idle"
    /\ pc' = "s_flares"
    /\ script' = "part_002"
    /\ runState' = "Running"
    /\ solarWind' = Obj(<<>>)
    /\ UNCHANGED others
    /\ UNCHANGED <<clock, kpIndex, solarFlares, currentKp, xrayFlux, dstIndex,
                   newsItems, requests, upstream, failed, store>>

SimpleFetchFlares ==
    /\ pc = "s_flares"
    /\ \E resp \in Responses(BackupFeeds) :
          LET r == SimpleFlareAdapter(resp)
          IN  /\ solarFlares' = IF r.ok THEN r.val ELSE solarFlares
              /\ Settle("flares", "solar-flare.json", resp, r)
    /\ pc' = "s_kp"
    /\ UNCHANGED others
    /\ UNCHANGED <<script, runState, clock, kpIndex, solarWind, currentKp, xrayFlux,
                   dstIndex, newsItems, store>>

SimpleFetchKp ==
    /\ pc = "s_kp"
    /\ \E resp \in Responses(KpFeeds) :
          LET r == SimpleKpAdapter(resp)
          IN  /\ kpIndex' = IF r.ok THEN r.val ELSE kpIndex
              /\ Settle("kp", "noaa-planetary-k-index.json", resp, r)
    /\ pc' = "s_wind"
    /\ UNCHANGED others
    /\ UNCHANGED <<script, runState, clock, solarWind, solarFlares, currentKp, xrayFlux,
                   dstIndex, newsItems, store>>

SimpleFetchWind ==
    /\ pc = "s_wind"
    /\ \E resp \in Responses(WindFeeds) :
          LET r == SimpleWindAdapter(resp, solarWind)
          IN  /\ solarWind' = IF r.ok THEN r.val ELSE solarWind
              /\ Settle("wind", "plasma-7-day.json", resp, r)
    /\ pc' = "s_wNoaa"
    /\ UNCHANGED others
    /\ UNCHANGED <<script, runState, clock, kpIndex, solarFlares, currentKp, xrayFlux,
                   dstIndex, newsItems, store>>

SimpleWriteNoaa ==
    /\ pc = "s_wNoaa"
    /\ WriteFileSync("noaa-data",
                     SimpleNoaaDoc(solarFlares, kpIndex, solarWind, ISO(clock)), "s_news")
    /\ UNCHANGED others
    /\ UNCHANGED <<script, runState, clock, locals, requests, upstream, failed, errAttempt>>

SimpleFetchNews ==
    /\ pc = "s_news"
    /\ \E resp \in Responses(SimpleNewsFeeds) :
          LET r == SimpleNewsAdapter(resp)
          IN  /\ newsItems' = IF r.ok THEN r.val ELSE newsItems
              /\ Settle("news", "breaking_news.rss", resp, r)
    /\ pc' = "s_wNews"
    /\ UNCHANGED others
    /\ UNCHANGED <<script, runState, clock, kpIndex, solarWind, solarFlares, currentKp,
                   xrayFlux, dstIndex, store>>

SimpleWriteNews ==
    /\ pc = "s_wNews"
    /\ WriteFileSync("news", newsItems, "s_wAurora")
    /\ UNCHANGED others
    /\ UNCHANGED <<script, runState, clock, locals, requests, upstream, failed, errAttempt>>

\* auroraData is built, which throws on a null last entry, then written
SimpleWriteAurora ==
    /\ pc = "s_wAurora"
    /\ IF SimpleAuroraThrows(kpIndex)
       THEN /\ pc' = "catch"
            /\ caught' = "TypeError"
            /\ UNCHANGED <<files, writes>>
       ELSE WriteFileSync("aurora", SimpleAuroraDoc(kpIndex, ISO(clock)), "s_wStatus")
    /\ UNCHANGED others
    /\ UNCHANGED <<script, runState, clock, locals, requests, upstream, failed, errAttempt>>

SimpleWriteStatus ==
    /\ pc = "s_wStatus"
    /\ WriteFileSync("update-status", SimpleStatusDoc(ISO(clock)), "done")
    /\ runState' = IF pc' = "done" THEN "Completed" ELSE runState
    /\ UNCHANGED others
    /\ UNCHANGED <<script, clock, locals, requests, upstream, failed, errAttempt>>

Next ==
    \/ Start
    \/ StartSimple
    \/ SimpleFetchFlares
    \/ SimpleFetchKp
    \/ SimpleFetchWind
    \/ SimpleWriteNoaa
    \/ SimpleFetchNews
    \/ SimpleWriteNews
    \/ SimpleWriteAurora
    \/ SimpleWriteStatus
    \/ FetchKp
    \/ FetchWind
    \/ FetchFlares
    \/ FetchFlaresBackup
    \/ WriteNoaa
    \/ WriteAurora
    \/ FetchXray
    \/ FetchDst
    \/ FetchNews
    \/ WriteNews
    \/ WriteStatus
    \/ WriteXray
    \/ WriteDst
    \/ CatchError

Spec == Init /\ [][Next]_vars

----------------------------------------------------------------------------
(* Vocabulary of the properties *)

Range(s) == {s[i] : i \in DOMAIN s}
Count(s, x) == Cardinality({i \in DOMAIN s : s[i] = x})

Enhanced == script = "update-data.js"
Terminal == pc \in {"done", "exited", "returned", "crashed"}

\* the file was written by this run
Written(f) == \E i \in DOMAIN writes : writes[i][1] = f

\* the status of the last update-status document this run wrote
StatusWrites == {i \in DOMAIN writes : writes[i][1] = "update-status"}
LastStatus ==
    IF StatusWrites = {}
    THEN "none"
    ELSE writes[CHOOSE i \in StatusWrites : \A j \in StatusWrites : j <= i][2]

PerFeedFiles == Files \ {"update-status"}

PrimaryUrls ==
    {"noaa-planetary-k-index.json", "plasma-7-day.json", "goes-xray-flares.json",
     "xrays-7-day.json", "kyoto-dst.json", "breaking_news.rss"}

----------------------------------------------------------------------------
(* C1: in fetchData of update-data.js, whichever feeds fail, the value of a   *)
(* failed feed stays at its default, a fetch failure never stops the run or   *)
(* sends it to the outer catch, and a run whose writes work requests all six  *)
(* feeds and ends with update-status 'success'.                               *)
C1_FailureIsolation ==
    Enhanced =>
        /\ "kp" \in failed => kpIndex = <<>>
        /\ "wind" \in failed => solarWind = <<>>
        /\ "flares" \in failed => solarFlares = <<>>
        /\ "xray" \in failed => xrayFlux = <<"A", NumStr(0)>>
        /\ "dst" \in failed => dstIndex = Num(0)
        /\ "news" \in failed => newsItems \in {<<>>, <<Placeholder(ISO(clock))>>}
        /\ caught # "none" => caught \in WriteErrs
        /\ (caught = "none" /\ pc # "done") => ENABLED Next
        /\ pc = "done" =>
              /\ PrimaryUrls \subseteq Range(requests)
              /\ runState = "Completed"
              /\ files["update-status"].status = "success"

\* a run in which two feeds failed and the others answered ends in success
C1_Witness ==
    /\ Enhanced
    /\ pc = "done"
    /\ failed = {"kp", "xray"}
    /\ solarWind # <<>>
    /\ dstIndex = Num(H(-55))
    /\ files["update-status"].status = "success"

(* C2: when every fetch fails and the writes work, the six documents are     *)
(* written from the defaults; and whatever failed upstream, a run whose       *)
(* writes work has written every document.                                    *)
C2_AllDefaultsWritten ==
    /\ (Enhanced /\ pc = "done" /\ failed = Feeds) =>
          /\ files["noaa-data"] = [kpIndex |-> <<>>, solarWind |-> <<>>,
                                   solarFlares |-> <<>>, updated |-> ISO(clock),
                                   source |-> "NOAA SWPC"]
          /\ files["aurora"].kpIndex = Num(0)
          /\ files["xray-data"].current = <<"A", NumStr(0)>>
          /\ files["xray-data"].numeric = Num(0)
          /\ files["xray-data"].class = "A"
          /\ files["dst-data"].current = Num(0)
          /\ files["dst-data"].stormLevel = "Quiet"
          /\ Len(files["news"]) = 1
          /\ files["news"][1].source = "Dashboard"
          /\ files["update-status"].status = "success"
    /\ (Enhanced /\ pc = "done") =>
          \A f \in Files : Written(f) /\ files[f] # PrevDoc /\ files[f] # Truncated
    /\ (Enhanced /\ ~Terminal /\ caught = "none") => ENABLED Next
    /\ (Enhanced /\ pc \in {"catch", "exited", "crashed"}) => caught \in WriteErrs

\* every one of the six feeds failed and the run completed
C2_Witness ==
    /\ Enhanced
    /\ pc = "done"
    /\ failed = Feeds
    /\ upstream["goes-xray-flares.json"] = "failed"

(* C3: when the Kp fetch fails or yields no entries, the aurora document is  *)
(* written with kpIndex 0, level LOW, probability "Low" and bestViewing       *)
(* "Not favorable", and the run goes on.                                      *)
C3_KpDefaultAurora ==
    (Enhanced /\ ("kp" \in failed \/ upstream["noaa-planetary-k-index.json"] = "empty")) =>
        /\ Written("aurora") =>
              /\ files["aurora"].kpIndex = Num(0)
              /\ files["aurora"].forecast.level = "LOW"
              /\ files["aurora"].forecast.kp = NumStr(0)
              /\ files["aurora"].probability = "Low"
              /\ files["aurora"].bestViewing = "Not favorable"
        /\ pc = "wAurora" => ENABLED WriteAurora
        /\ pc \notin {"idle", "kp", "wind", "flares", "backup", "wNoaa", "wAurora"} =>
              (Written("aurora") \/ caught \in WriteErrs)
        /\ caught # "none" => caught \in WriteErrs

\* the Kp request failed and the aurora document was written
C3_Witness ==
    /\ Enhanced
    /\ "kp" \in failed
    /\ Written("aurora")
    /\ files["aurora"].forecast.level = "LOW"

\* a step leaves every per-feed snapshot this run has written as it is
KeepsWritten ==
    \A f \in PerFeedFiles : Written(f) => (Written(f)' /\ files'[f] = files[f])

(* C6: when a write fails in fetchData, the catch hands the writer an        *)
(* update-status document with status 'error' and the failure's message       *)
(* before the run ends, and no per-feed snapshot this run has written is      *)
(* changed afterwards.                                                        *)
C6_ErrorStatusNoRollback ==
    /\ [](caught \in WriteErrs /\ pc \in {"exited", "returned", "crashed"} =>
             /\ errAttempt = [lastUpdate |-> ISO(clock), status |-> "error",
                              message |-> caught]
             /\ pc \in {"exited", "returned"} =>
                   /\ files["update-status"] = errAttempt
                   /\ LastStatus = "error")
    /\ [][KeepsWritten]_vars

\* the xray-data write failed after four documents were written, and the
\* error status was written
C6_Witness ==
    /\ Enhanced
    /\ pc = "exited"
    /\ caught = "ENOSPC"
    /\ Len(writes) = 5
    /\ Written("news")
    /\ files["update-status"].message = "ENOSPC"
    /\ files["news"] # PrevDoc

\* the moves of the run state a step may make
RunStateStep ==
    \/ runState = "Idle" /\ runState' = "Running"
    \/ runState = "Running" /\ runState' \in {"Running", "Completed", "Faulted"}

(* C7 as stated: every run ends Completed with the last update-status it     *)
(* wrote 'success', or Faulted with the last update-status it wrote 'error',  *)
(* and no run ends without having written an update-status document.         *)
C7_Original ==
    Terminal =>
        /\ \/ runState = "Completed" /\ LastStatus = "success"
           \/ runState = "Faulted" /\ LastStatus = "error"
        /\ LastStatus # "none"

(* C7 amended: a run goes Idle -> Running -> Completed or Faulted and stays  *)
(* there; Completed means no error was caught and the last update-status      *)
(* written is 'success'; Faulted means a failed write or assembler step was   *)
(* caught (never a failed fetch) and an 'error' update-status was handed to   *)
(* the writer, which is the last one written unless that write failed too;    *)
(* no run ends without having attempted an update-status write.               *)
C7_RunStateMachine ==
    /\ [](/\ runState \in {"Idle", "Running", "Completed", "Faulted"}
          /\ runState = "Idle" <=> pc = "idle"
          /\ Terminal <=> runState \in {"Completed", "Faulted"}
          /\ ~Terminal => ENABLED Next
          /\ runState = "Completed" => (caught = "none" /\ LastStatus = "success")
          /\ runState = "Faulted" =>
                /\ caught \in WriteErrs \cup {"TypeError"}
                /\ errAttempt.status = "error"
                /\ errAttempt.message = caught
                /\ (LastStatus = "error" \/ pc = "crashed")
          /\ Terminal => (LastStatus # "none" \/ errAttempt # NoDoc))
    /\ [][RunStateStep]_vars

\* a run whose noaa-data write and error-status write both failed
C7_Witness ==
    /\ pc = "crashed"
    /\ runState = "Faulted"
    /\ LastStatus = "none"
    /\ errAttempt.status = "error"

(* C8 as stated: the backup flare endpoint is requested exactly once when    *)
(* the primary endpoint failed or answered an empty list, and never           *)
(* otherwise; no other URL is requested twice.                                *)
C8_FallbackPolicy ==
    (Enhanced /\ pc \notin {"idle", "kp", "wind", "flares", "backup"}) =>
        /\ Count(requests, "solar-flare.json") =
              (IF upstream["goes-xray-flares.json"] \in {"failed", "empty"} THEN 1 ELSE 0)
        /\ \A u \in Urls : Count(requests, u) <= 1

----------------------------------------------------------------------------
(* update-data.js, fetchNOAAData: the NOAA adapters of the second program *)

\* new Date(flare.begin_time) > yesterday, with the cutoff as a time-tag index
IsRecent(flare, yesterday) ==
    LET t == Key(flare, "begin_time") IN t[1] = "str" /\ t[2] > yesterday

\* flareData.filter(flare => flareTime > yesterday)
RecentFlares(s, yesterday) ==
    LET F[i \in 0..Len(s)] ==
            IF i = 0 THEN <<>>
            ELSE IF IsRecent(s[i], yesterday) THEN Append(F[i - 1], s[i]) ELSE F[i - 1]
    IN  F[Len(s)]

NoaaFlareLimit == 10
NoaaKpWindow == 24

\* flareData.filter(...).slice(0, 10)
NoaaFlareAdapter(resp, yesterday) ==
    IF resp.kind # "list" \/ HasNull(resp.items)
    THEN Throw
    ELSE Ok(FirstN(RecentFlares(resp.items, yesterday), NoaaFlareLimit))

\* kpData.slice(-24)
NoaaKpAdapter(resp) ==
    IF resp.kind # "list" THEN Throw ELSE Ok(LastN(resp.items, NoaaKpWindow))

\* windData.slice(-1)[0] || {}
NoaaWindAdapter(resp) ==
    IF resp.kind # "list"
    THEN Throw
    ELSE IF Len(resp.items) > 0 /\ resp.items[Len(resp.items)].shape # "null"
         THEN Ok(resp.items[Len(resp.items)])
         ELSE Ok(Obj(<<>>))

----------------------------------------------------------------------------
(* The adapters applied to one upstream list *)

\* the longest upstream list
MaxFeedLen == 26

Shapes == {"arr", "obj", "mixed"}
NormVals == {0, 233}

ShapeAt(shape, i) ==
    IF shape = "mixed" THEN (IF i % 2 = 0 THEN "arr" ELSE "obj") ELSE shape

\* an upstream list of n entries in time order: entry i carries time tag i
KpFeed(n, shape, v) ==
    [i \in 1..n |-> IF ShapeAt(shape, i) = "arr"
                    THEN KpArrEntry(i, v + i) ELSE KpObjEntry(i, v + i)]
WindFeed(n, shape, v) ==
    [i \in 1..n |-> IF ShapeAt(shape, i) = "arr"
                    THEN WindArrEntry(i, v + i, H(400) + i, H(1000) + i)
                    ELSE WindObjEntry(i, v + i, H(400) + i, H(1000) + i)]
DstFeed(n, shape, v) ==
    [i \in 1..n |-> IF ShapeAt(shape, i) = "arr"
                    THEN DstArrEntry(i, -(v + i)) ELSE DstObjEntry(i, -(v + i))]
FlareFeed(n) == [i \in 1..n |-> Flare(i)]
XrayFeed(n, v) == [i \in 1..n |-> XrayEntry(i, Num(v + i))]

NormInit ==
    /\ PipelineInit
    /\ clock = 1
    /\ join = JoinIdle
    /\ timed = TimedIdle
    /\ \E n \in 0..MaxFeedLen, sh \in Shapes, v \in NormVals, y \in 0..MaxFeedLen :
           /\ y <= n
           /\ norm = [op |-> "none", len |-> n, shape |-> sh, val |-> v,
                      yesterday |-> y, out |-> Throw]

Applied(op, result) == [norm EXCEPT !.op = op, !.out = result]

\* fetchData of update-data.js
ApplyKp ==
    /\ norm.op = "none"
    /\ norm' = Applied("kp", KpAdapter(ListResp(KpFeed(norm.len, norm.shape, norm.val))))
    /\ UNCHANGED <<pipeline, join, timed>>

ApplyFlares ==
    /\ norm.op = "none"
    /\ norm' = Applied("flares", FlareAdapter(ListResp(FlareFeed(norm.len))))
    /\ UNCHANGED <<pipeline, join, timed>>

ApplyWind ==
    /\ norm.op = "none"
    /\ norm' = Applied("wind",
                       WindAdapter(ListResp(WindFeed(norm.len, norm.shape, norm.val)),
                                   solarWind, ISO(clock)))
    /\ UNCHANGED <<pipeline, join, timed>>

ApplyXray ==
    /\ norm.op = "none"
    /\ norm' = Applied("xray", XrayAdapter(ListResp(XrayFeed(norm.len, norm.val)), xrayFlux))
    /\ UNCHANGED <<pipeline, join, timed>>

ApplyDst ==
    /\ norm.op = "none"
    /\ norm' = Applied("dst",
                       DstAdapter(ListResp(DstFeed(norm.len, norm.shape, norm.val)),
                                  dstIndex))
    /\ UNCHANGED <<pipeline, join, timed>>

\* fetchNOAAData of update-data.js
ApplyNoaaFlares ==
    /\ norm.op = "none"
    /\ norm' = Applied("noaaFlares",
                       NoaaFlareAdapter(ListResp(FlareFeed(norm.len)), norm.yesterday))
    /\ UNCHANGED <<pipeline, join, timed>>

ApplyNoaaKp ==
    /\ norm.op = "none"
    /\ norm' = Applied("noaaKp",
                       NoaaKpAdapter(ListResp(KpFeed(norm.len, norm.shape, norm.val))))
    /\ UNCHANGED <<pipeline, join, timed>>

ApplyNoaaWind ==
    /\ norm.op = "none"
    /\ norm' = Applied("noaaWind",
                       NoaaWindAdapter(ListResp(WindFeed(norm.len, norm.shape, norm.val))))
    /\ UNCHANGED <<pipeline, join, timed>>

\* the older fetchData
ApplySimpleFlares ==
    /\ norm.op = "none"
    /\ norm' = Applied("simpleFlares", SimpleFlareAdapter(ListResp(FlareFeed(norm.len))))
    /\ UNCHANGED <<pipeline, join, timed>>

ApplySimpleKp ==
    /\ norm.op = "none"
    /\ norm' = Applied("simpleKp",
                       SimpleKpAdapter(ListResp(KpFeed(norm.len, norm.shape, norm.val))))
    /\ UNCHANGED <<pipeline, join, timed>>

ApplySimpleWind ==
    /\ norm.op = "none"
    /\ norm' = Applied("simpleWind",
                       SimpleWindAdapter(ListResp(WindFeed(norm.len, norm.shape, norm.val)),
                                         Obj(<<>>)))
    /\ UNCHANGED <<pipeline, join, timed>>

\* the same entries, once as positional arrays and once as keyed objects
Both(fromArr, fromObj) == [ok |-> TRUE, val |-> <<>>, arr |-> fromArr, obj |-> fromObj]

ShapesKp ==
    /\ norm.op = "none"
    /\ norm.len > 0
    /\ LET A(sh) == KpAdapter(ListResp(KpFeed(norm.len, sh, norm.val)))
       IN  norm' = Applied("kpShapes", Both(A("arr"), A("obj")))
    /\ UNCHANGED <<pipeline, join, timed>>

ShapesWind ==
    /\ norm.op = "none"
    /\ norm.len > 0
    /\ LET A(sh) == WindAdapter(ListResp(WindFeed(norm.len, sh, norm.val)),
                                solarWind, ISO(clock))
       IN  norm' = Applied("windShapes", Both(A("arr"), A("obj")))
    /\ UNCHANGED <<pipeline, join, timed>>

ShapesDst ==
    /\ norm.op = "none"
    /\ norm.len > 0
    /\ LET A(sh) == DstAdapter(ListResp(DstFeed(norm.len, sh, norm.val)), dstIndex)
       IN  norm' = Applied("dstShapes", Both(A("arr"), A("obj")))
    /\ UNCHANGED <<pipeline, join, timed>>

NormNext ==
    \/ ApplyKp
    \/ ApplyFlares
    \/ ApplyWind
    \/ ApplyXray
    \/ ApplyDst
    \/ ApplyNoaaFlares
    \/ ApplyNoaaKp
    \/ ApplyNoaaWind
    \/ ApplySimpleFlares
    \/ ApplySimpleKp
    \/ ApplySimpleWind
    \/ ShapesKp
    \/ ShapesWind
    \/ ShapesDst

SpecNorm == NormInit /\ [][NormNext]_vars

Min(a, b) == IF a <= b THEN a ELSE b

\* the last m of the n entries of a feed
LastEntries(feed, m) == [j \in 1..m |-> feed[Len(feed) - m + j]]
LastOnly(feed) == ListResp(<<feed[Len(feed)]>>)

(* C9: whatever the number n of upstream entries, the Kp list is the last
   min(24, n) of them and the flare list the last min(10, n), in upstream
   order; solar wind, Dst and X-ray use the last entry only. *)
C9_Windowing ==
    LET n == norm.len
        kp == KpFeed(n, norm.shape, norm.val)
        wind == WindFeed(n, norm.shape, norm.val)
    IN  /\ norm.op = "kp" =>
               /\ norm.out.ok
               /\ Len(norm.out.val) = Min(KpWindow, n)
               /\ \A j \in DOMAIN norm.out.val :
                      norm.out.val[j][1] = TimeTag(n - Min(KpWindow, n) + j)
        /\ norm.op \in {"noaaKp", "simpleKp"} =>
               norm.out = Ok(LastEntries(kp, Min(24, n)))
        /\ norm.op \in {"flares", "noaaFlares", "simpleFlares"} =>
               norm.out = Ok(LastEntries(FlareFeed(n), Min(10, n)))
        /\ (norm.op = "wind" /\ n > 0) =>
               norm.out = WindAdapter(LastOnly(wind), solarWind, ISO(clock))
        /\ (norm.op = "noaaWind" /\ n > 0) => norm.out = Ok(wind[n])
        /\ (norm.op = "simpleWind" /\ n > 0) => norm.out = Ok(wind[n])
        /\ (norm.op = "xray" /\ n > 0) =>
               norm.out = XrayAdapter(LastOnly(XrayFeed(n, norm.val)), xrayFlux)
        /\ (norm.op = "dst" /\ n > 0) =>
               norm.out = DstAdapter(LastOnly(DstFeed(n, norm.shape, norm.val)), dstIndex)

(* C10: an upstream list of keyed objects and the same list as positional
   arrays, carrying the same timestamps and values, give the same Kp list,
   the same solar-wind record and the same Dst value. *)
C10_ShapeEquivalence ==
    norm.op \in {"kpShapes", "windShapes", "dstShapes"} => norm.out.arr = norm.out.obj

----------------------------------------------------------------------------
(* updateAllData: the three orchestrators of the repository *)

\* update-data.js: Promise.allSettled over three tasks, then the status write
\* the meteor snippet: Promise.all over six tasks, then the status write
\* the first script: Promise.all over three tasks, no status write
Orchestrators == {"update-data.js", "meteor", "first"}

Tasks(o) ==
    IF o = "meteor"
    THEN {"updateNOAAData", "updateAuroraData", "updateNewsData", "updateXrayData",
          "updateDstData", "updateMeteorData"}
    ELSE {"fetchNOAAData", "fetchNews", "fetchAuroraData"}

\* a task whose promise can reject: the tasks of update-data.js write their
\* file outside their try block (fetchAuroraData inside its catch block); the
\* tasks of the first script and updateMeteorData catch everything
CanReject(o, t) ==
    \/ o = "update-data.js"
    \/ o = "meteor" /\ t # "updateMeteorData"

\* the five tasks the meteor snippet calls and does not define: each fetches,
\* falls back to a default when the fetch fails, and writes its own file,
\* a failed write rejecting its promise
UndefinedTasks == Tasks("meteor") \ {"updateMeteorData"}

\* Promise.all settles with the first rejection or the last fulfilment,
\* Promise.allSettled with the last settlement
Aggregate(o, tasks) ==
    IF o = "update-data.js"
    THEN IF \A t \in DOMAIN tasks : tasks[t] # "pending" THEN "fulfilled" ELSE "pending"
    ELSE IF \E t \in DOMAIN tasks : tasks[t] = "rejected" THEN "rejected"
         ELSE IF \A t \in DOMAIN tasks : tasks[t] = "fulfilled" THEN "fulfilled"
         ELSE "pending"

JoinInit ==
    /\ PipelineInit
    /\ clock = 1
    /\ norm = NormIdle
    /\ timed = TimedIdle
    /\ \E o \in Orchestrators :
           join = [pc |-> "idle", orchestrator |-> o, tasks |-> [t \in Tasks(o) |-> "idle"],
                   all |-> "pending", status |-> "none", attempts |-> <<>>]

\* the array of calls: every task runs to its first await
Launch ==
    /\ join.pc = "idle"
    /\ join' = [join EXCEPT !.pc = "await",
                            !.tasks = [t \in Tasks(join.orchestrator) |-> "pending"]]
    /\ UNCHANGED <<pipeline, norm, timed>>

\* the aggregate promise settles once: later settlements leave it alone
SettleTask(t, how) ==
    LET tasks == [join.tasks EXCEPT ![t] = how]
    IN  join' = [join EXCEPT !.tasks = tasks,
                             !.all = IF join.all = "pending"
                                     THEN Aggregate(join.orchestrator, tasks)
                                     ELSE join.all]

Running(t) ==
    /\ join.pc \notin {"none", "idle", "exited"}
    /\ t \in DOMAIN join.tasks
    /\ join.tasks[t] = "pending"

TaskFulfils ==
    \E t \in Tasks(join.orchestrator) :
        /\ join.pc # "none"
        /\ Running(t)
        /\ SettleTask(t, "fulfilled")
        /\ UNCHANGED <<pipeline, norm, timed>>

TaskRejects ==
    \E t \in Tasks(join.orchestrator) :
        /\ join.pc # "none"
        /\ Running(t)
        /\ CanReject(join.orchestrator, t)
        /\ SettleTask(t, "rejected")
        /\ UNCHANGED <<pipeline, norm, timed>>

\* the await returns: on to the status write, or to the end of the first script
AwaitReturns ==
    /\ join.pc = "await"
    /\ join.all = "fulfilled"
    /\ join' = [join EXCEPT !.pc = IF join.orchestrator = "first" THEN "done" ELSE "status"]
    /\ UNCHANGED <<pipeline, norm, timed>>

\* the await throws the first rejection: into the catch block
AwaitThrows ==
    /\ join.pc = "await"
    /\ join.all = "rejected"
    /\ join' = [join EXCEPT !.pc = "catch"]
    /\ UNCHANGED <<pipeline, norm, timed>>

\* the write of the 'success' status; a failed write throws into the catch block
WriteSuccessStatus ==
    /\ join.pc = "status"
    /\ \/ join' = [join EXCEPT !.pc = "done", !.status = "success",
                               !.attempts = Append(@, "success")]
       \/ join' = [join EXCEPT !.pc = "catch", !.attempts = Append(@, "success")]
    /\ UNCHANGED <<pipeline, norm, timed>>

\* the catch block: the write of the 'error' status, then process.exit(1) in
\* update-data.js and return false in the meteor snippet
WriteErrorStatus ==
    /\ join.pc = "catch"
    /\ \/ join' = [join EXCEPT !.pc = IF join.orchestrator = "update-data.js"
                                      THEN "exited" ELSE "returned",
                               !.status = "error", !.attempts = Append(@, "error")]
       \/ join' = [join EXCEPT !.pc = "crashed", !.attempts = Append(@, "error")]
    /\ UNCHANGED <<pipeline, norm, timed>>

JoinNext ==
    \/ Launch
    \/ TaskFulfils
    \/ TaskRejects
    \/ AwaitReturns
    \/ AwaitThrows
    \/ WriteSuccessStatus
    \/ WriteErrorStatus

SpecJoin == JoinInit /\ [][JoinNext]_vars

Pending == {t \in DOMAIN join.tasks : join.tasks[t] = "pending"}
PastAwait == join.pc \in {"status", "catch", "done", "exited", "returned", "crashed"}

(* C4: updateAllData launches all its tasks together and goes on to the
   status write, or to choosing the outcome of the run, only after every
   task it launched has settled: no task is pending once the await is over,
   whether tasks rejected or not. *)
C4_JoinWaitsForAll ==
    /\ join.pc = "await" => \A t \in DOMAIN join.tasks : join.tasks[t] # "idle"
    /\ PastAwait => Pending = {}

----------------------------------------------------------------------------
(* updateAllData of update-data.js with its requests and their timers.
   Time is counted in ticks of ten seconds. *)

\* fetchWithTimeout(url, timeout = 10000)
TimeoutTicks == 1
\* new Parser() is given no timeout: parseURL gives up after the library's
\* own default, 60000 ms
ParserTimeoutTicks == 6

\* the requests of each task, in the order the task awaits them
Requests(t) ==
    CASE t = "fetchNOAAData" -> <<"flares", "kp", "wind">>
      [] t = "fetchNews" -> <<"nasa", "spaceweather">>
      [] t = "fetchAuroraData" -> <<"forecast">>

TimedTasks == {"fetchNOAAData", "fetchNews", "fetchAuroraData"}
Adapters == {"flares", "kp", "wind", "nasa", "spaceweather", "forecast"}

TaskOf(a) == CHOOSE t \in TimedTasks : \E i \in DOMAIN Requests(t) : Requests(t)[i] = a
Position(a) == CHOOSE i \in DOMAIN Requests(TaskOf(a)) : Requests(TaskOf(a))[i] = a

\* the timer that ends a request: fetchWithTimeout's, or the parser's own
Limit(a) == IF a \in {"nasa", "spaceweather"} THEN ParserTimeoutTicks ELSE TimeoutTicks

TimedInit ==
    /\ PipelineInit
    /\ clock = 1
    /\ norm = NormIdle
    /\ join = JoinIdle
    /\ \E h \in Adapters \cup {"none"} :
           timed = [pc |-> "idle", hang |-> h, now |-> 0,
                    req |-> [a \in Adapters |-> "waiting"],
                    timer |-> [a \in Adapters |-> -1],
                    task |-> [t \in TimedTasks |-> "idle"],
                    status |-> "none"]

\* Promise.allSettled([fetchNOAAData(), fetchNews(), fetchAuroraData()]): each
\* task runs to its first await, which sends its first request
TimedLaunch ==
    /\ timed.pc = "idle"
    /\ timed' = [timed EXCEPT
                    !.pc = "await",
                    !.task = [t \in TimedTasks |-> "running"],
                    !.req = [a \in Adapters |->
                                 IF Position(a) = 1 THEN "inflight" ELSE "waiting"],
                    !.timer = [a \in Adapters |-> IF Position(a) = 1 THEN 0 ELSE -1]]
    /\ UNCHANGED <<pipeline, norm, join>>

\* the request of adapter a ends with a result (data, or the default of its
\* catch block) and its timer is cleared; the task goes on to its next request,
\* or to its write, which fulfils the task or throws out of it
Resolve(a, result, written) ==
    LET t == TaskOf(a)
        i == Position(a)
        last == i = Len(Requests(t))
        next == Requests(t)[IF last THEN i ELSE i + 1]
    IN  timed' = [timed EXCEPT
                     !.req = IF last THEN [@ EXCEPT ![a] = result]
                             ELSE [@ EXCEPT ![a] = result, ![next] = "inflight"],
                     !.timer = IF last THEN [@ EXCEPT ![a] = -1]
                               ELSE [@ EXCEPT ![a] = -1, ![next] = 0],
                     !.task = IF last
                              THEN [@ EXCEPT ![t] = IF written THEN "fulfilled"
                                                    ELSE "rejected"]
                              ELSE @]

InFlight(a) == timed.pc = "await" /\ timed.req[a] = "inflight"
\* the ticks since the request was sent, which its timer counts
Elapsed(a) == timed.timer[a]

\* the upstream answers, with data or with an error, before the timer fires
Respond ==
    \E a \in Adapters, result \in {"data", "default"}, written \in BOOLEAN :
        /\ timed.pc # "none"
        /\ InFlight(a)
        /\ a # timed.hang
        /\ Resolve(a, result, written)
        /\ UNCHANGED <<pipeline, norm, join>>

\* the timer of the request fires: the request is cancelled, axios.get throws
\* and the catch block leaves the default
TimerFires ==
    \E a \in Adapters, written \in BOOLEAN :
        /\ timed.pc # "none"
        /\ InFlight(a)
        /\ Elapsed(a) = Limit(a)
        /\ Resolve(a, "default", written)
        /\ UNCHANGED <<pipeline, norm, join>>

\* ten seconds pass, unless a timer is due
Tick ==
    /\ timed.pc = "await"
    /\ \E a \in Adapters : timed.req[a] = "inflight"
    /\ \A a \in Adapters : timed.req[a] = "inflight" => Elapsed(a) < Limit(a)
    /\ timed' = [timed EXCEPT
                    !.now = @ + 1,
                    !.timer = [a \in Adapters |-> IF timed.req[a] = "inflight"
                                                  THEN @[a] + 1 ELSE @[a]]]
    /\ UNCHANGED <<pipeline, norm, join>>

\* every task has settled: the 'success' status; a failed write goes to the
\* catch block
TimedWriteStatus ==
    /\ timed.pc = "await"
    /\ \A t \in TimedTasks : timed.task[t] \in {"fulfilled", "rejected"}
    /\ \/ timed' = [timed EXCEPT !.pc = "done", !.status = "success"]
       \/ timed' = [timed EXCEPT !.pc = "catch"]
    /\ UNCHANGED <<pipeline, norm, join>>

\* the catch block: the 'error' status, then process.exit(1)
TimedCatch ==
    /\ timed.pc = "catch"
    /\ \/ timed' = [timed EXCEPT !.pc = "exited", !.status = "error"]
       \/ timed' = [timed EXCEPT !.pc = "crashed"]
    /\ UNCHANGED <<pipeline, norm, join>>

TimedNext ==
    \/ TimedLaunch
    \/ Respond
    \/ TimerFires
    \/ Tick
    \/ TimedWriteStatus
    \/ TimedCatch

SpecTime == TimedInit /\ [][TimedNext]_vars

\* the scheduler runs every continuation that is ready, and time passes
SpecTimeFair == SpecTime /\ WF_vars(TimedNext)

HasResult(a) == timed.req[a] \in {"data", "default"}

(* C5: when the request of one adapter hangs for ever, that adapter ends
   with its default once its own timer of ten seconds, counted from the
   moment its request was sent, has expired; and no other adapter is kept
   from its result past its own ten seconds. *)
C5_HangBounded ==
    timed.pc # "none" /\ timed.hang # "none" =>
        /\ HasResult(timed.hang) => timed.req[timed.hang] = "default"
        /\ \A a \in Adapters : timed.req[a] = "inflight" => Elapsed(a) <= TimeoutTicks

(* C5, completion: with a hanging request the run still ends, its status
   written or its write attempted. *)
C5_Completes == <>(timed.pc \in {"done", "exited", "crashed"})

----------------------------------------------------------------------------
(* Numbers and classifications *)

\* a finite number, or a string that spells one
Finite(v) == v[1] \in {"num", "nstr"}

(* C11: in every state of a run of fetchData, every numeric value derived
   from upstream data is a finite number: the Kp and estimated Kp of each
   entry, the current Kp of the aurora document, the solar wind density,
   speed and temperature, the X-ray magnitude and the Dst index, in the
   variables and in the documents written; none is NaN, null, undefined or
   a string that spells no number. *)
C11_NumericFinite ==
    Enhanced =>
        /\ \A i \in DOMAIN kpIndex :
               \A j \in DOMAIN kpIndex[i] \cap {2, 3} : Finite(kpIndex[i][j])
        /\ Written("noaa-data") =>
               /\ \A i \in DOMAIN files["noaa-data"].kpIndex :
                      \A j \in DOMAIN files["noaa-data"].kpIndex[i] \cap {2, 3} :
                          Finite(files["noaa-data"].kpIndex[i][j])
               /\ \A j \in DOMAIN files["noaa-data"].solarWind \cap {2, 3, 4} :
                      Finite(files["noaa-data"].solarWind[j])
        /\ Finite(currentKp)
        /\ Written("aurora") =>
               Finite(files["aurora"].kpIndex) /\ Finite(files["aurora"].forecast.kp)
        /\ \A j \in DOMAIN solarWind \cap {2, 3, 4} : Finite(solarWind[j])
        /\ Finite(xrayFlux[2])
        /\ Written("xray-data") =>
               Finite(files["xray-data"].numeric) /\ Finite(files["xray-data"].current[2])
        /\ Finite(dstIndex)
        /\ Written("dst-data") => Finite(files["dst-data"].current)
        /\ Written("update-status") /\ files["update-status"].status = "success" =>
               /\ Finite(files["update-status"].metrics.kpIndex)
               /\ Finite(files["update-status"].metrics.xrayFlux[2])
               /\ Finite(files["update-status"].metrics.dstIndex)
               /\ Finite(files["update-status"].metrics.solarWindSpeed)

----------------------------------------------------------------------------
(* The classifiers of fetchData applied to one value *)

\* the largest flux, in units of 1e-11 W/m2: above the X threshold
MaxFlux == 120000
\* the depth of the lowest Dst, in nT: below the Severe cut point
MaxDstDepth == 101
\* the highest Kp
MaxKp == 9

ClassInputs ==
    [kind : {"flux"}, x : -2..MaxFlux]
        \cup [kind : {"dst"}, x : H(-MaxDstDepth)..H(1)]
        \cup [kind : {"kp"}, x : 0..H(MaxKp)]

ClassInit ==
    /\ PipelineInit
    /\ clock = 1
    /\ join = JoinIdle
    /\ timed = TimedIdle
    /\ \E in \in ClassInputs :
           norm = [op |-> "none", kind |-> in.kind, x |-> in.x, out |-> Throw]

\* the X-ray try block on a feed whose latest entry carries the flux, then the
\* xray-data document; next is the class of the flux one unit higher
ClassifyFlux ==
    /\ norm.op = "none"
    /\ norm.kind = "flux"
    /\ LET Class(f) == XrayAdapter(ListResp(<<XrayEntry(1, Num(f))>>), xrayFlux).val
       IN  norm' = Applied("flux", [class |-> Class(norm.x),
                                    next |-> Class(norm.x + 1),
                                    doc |-> XrayDoc(Class(norm.x), ISO(clock))])
    /\ UNCHANGED <<pipeline, join, timed>>

\* the dst-data document of a Dst value
ClassifyDst ==
    /\ norm.op = "none"
    /\ norm.kind = "dst"
    /\ norm' = Applied("dst", [doc |-> DstDoc(Num(norm.x), ISO(clock))])
    /\ UNCHANGED <<pipeline, join, timed>>

\* the aurora document of a current Kp
ClassifyKp ==
    /\ norm.op = "none"
    /\ norm.kind = "kp"
    /\ norm' = Applied("kp", [doc |-> AuroraDoc(Num(norm.x), ISO(clock))])
    /\ UNCHANGED <<pipeline, join, timed>>

ClassNext ==
    \/ ClassifyFlux
    \/ ClassifyDst
    \/ ClassifyKp

SpecClass == ClassInit /\ [][ClassNext]_vars

Rank(letter) ==
    CASE letter = "A" -> 0 [] letter = "B" -> 1 [] letter = "C" -> 2
      [] letter = "M" -> 3 [] letter = "X" -> 4

(* C12: for every flux f the class letter is X when f >= 1e-6, else M when
   f >= 1e-7, else C when f >= 1e-8, else B when f >= 1e-9, else A, a flux
   on a boundary getting the higher class; and the letter never goes down
   as f goes up. Flux is counted in units of 1e-11. *)
C12_XrayLetter ==
    norm.op = "flux" =>
        /\ norm.out.class[1] =
               (IF norm.x >= 100000 THEN "X"
                ELSE IF norm.x >= 10000 THEN "M"
                ELSE IF norm.x >= 1000 THEN "C"
                ELSE IF norm.x >= 100 THEN "B"
                ELSE "A")
        /\ Rank(norm.out.class[1]) <= Rank(norm.out.next[1])

\* a flux exactly on the M boundary, and one exactly on the B boundary
C12_Witness ==
    \/ norm.op = "flux" /\ norm.x = 10000 /\ norm.out.class[1] = "M"
    \/ norm.op = "flux" /\ norm.x = 100 /\ norm.out.class[1] = "B"

\* the threshold of a letter, in units of 1e-11
ThresholdOf(letter) ==
    CASE letter = "X" -> 100000 [] letter = "M" -> 10000
      [] letter = "C" -> 1000 [] letter = "B" -> 100

Abs(n) == IF n < 0 THEN -n ELSE n

(* C13: for every flux classified X, M, C or B the magnitude of the class
   string, and xray-data.numeric, is the flux divided by the threshold of
   the letter, rounded to one decimal place: it is a whole number of tenths
   no further than half a tenth from the quotient, so a flux on a boundary
   has magnitude 1.0; xray-data.class is the letter and xray-data.current
   is the letter followed by the magnitude. *)
C13_XrayMagnitude ==
    (norm.op = "flux" /\ norm.out.class[1] \in {"X", "M", "C", "B"}) =>
        LET letter == norm.out.class[1]
            mag == norm.out.class[2]
            T == ThresholdOf(letter)
        IN  /\ mag[1] = "nstr"
            /\ mag[2] % 10 = 0
            /\ 2 * Abs(10 * norm.x - (mag[2] \div 10) * T) <= T
            /\ norm.x = T => mag = NumStr(H(1))
            /\ norm.out.doc.numeric = Num(mag[2])
            /\ norm.out.doc.class = letter
            /\ norm.out.doc.current = <<letter, mag>>

\* a flux of 1.26e-7: M1.3
C13_Witness ==
    /\ norm.op = "flux"
    /\ norm.x = 12600
    /\ norm.out.doc.current = <<"M", NumStr(130)>>
    /\ norm.out.doc.numeric = Num(130)

(* C14: for every Dst value d the storm level is Severe when d <= -100,
   Strong when -100 < d <= -50, Moderate when -50 < d <= -30, Minor when
   -30 < d <= -20 and Quiet otherwise; the description is fixed by the
   level, different levels having different descriptions. *)
C14_DstLevels ==
    norm.op = "dst" =>
        LET d == norm.x
            level == norm.out.doc.stormLevel
        IN  /\ level = (IF d <= -10000 THEN "Severe"
                        ELSE IF d <= -5000 THEN "Strong"
                        ELSE IF d <= -3000 THEN "Moderate"
                        ELSE IF d <= -2000 THEN "Minor"
                        ELSE "Quiet")
            /\ norm.out.doc.description =
                   (CASE level = "Severe" -> "Severe geomagnetic storm in progress"
                      [] level = "Strong" -> "Strong geomagnetic storm ongoing"
                      [] level = "Moderate" -> "Moderate geomagnetic disturbance"
                      [] level = "Minor" -> "Minor geomagnetic activity"
                      [] level = "Quiet" -> "Geomagnetic conditions quiet")

\* the three values the boundary examples name: -100, -99 and -19
C14_Witness ==
    \/ norm.op = "dst" /\ norm.x = -10000 /\ norm.out.doc.stormLevel = "Severe"
    \/ norm.op = "dst" /\ norm.x = -9900 /\ norm.out.doc.stormLevel = "Strong"
    \/ norm.op = "dst" /\ norm.x = -1900 /\ norm.out.doc.stormLevel = "Quiet"

(* C15: for every Kp value k the aurora level is HIGH when k >= 6, MODERATE
   when 4 <= k < 6 and LOW when k < 4, and the probability is "High" when
   k >= 5 and "Low" otherwise. *)
C15_AuroraLevels ==
    norm.op = "kp" =>
        /\ norm.out.doc.forecast.level =
               (IF norm.x >= 600 THEN "HIGH"
                ELSE IF norm.x >= 400 THEN "MODERATE"
                ELSE "LOW")
        /\ norm.out.doc.probability = (IF norm.x >= 500 THEN "High" ELSE "Low")

\* Kp 4.5: MODERATE with probability Low; Kp 6: HIGH
C15_Witness ==
    \/ /\ norm.op = "kp" /\ norm.x = 450
       /\ norm.out.doc.forecast.level = "MODERATE"
       /\ norm.out.doc.probability = "Low"
    \/ norm.op = "kp" /\ norm.x = 600 /\ norm.out.doc.forecast.level = "HIGH"

----------------------------------------------------------------------------
(* fetchData end to end *)

\* the Kp readings [[t, 5.0], [t2, 6.3]], and readings whose last is not the highest
KpReadings == <<Elems(KpArrEntry(1, 500)), Elems(KpArrEntry(2, 630))>>
KpFalling == <<KpItem(KpObjEntry(1, 700)), KpItem(KpObjEntry(2, 400))>>

(* C16: with the Kp readings [[t, 5.0], [t2, 6.3]] the aurora document the
   run writes reports kpIndex 6.3, the Kp of the last entry, and level
   HIGH (with readings 7.0 then 4.0 it reports 4.0 and MODERATE: the last,
   not the highest); with the Dst reading -55, taken from the latest entry
   of the Dst feed, the dst-data document reports current -55 and
   stormLevel Strong. *)
C16_EndToEnd ==
    Enhanced =>
        /\ (kpIndex = KpReadings /\ Written("aurora")) =>
               /\ files["aurora"].kpIndex = Num(630)
               /\ files["aurora"].forecast.level = "HIGH"
               /\ files["aurora"].forecast.kp = NumStr(630)
        /\ (kpIndex = KpFalling /\ Written("aurora")) =>
               /\ files["aurora"].kpIndex = Num(400)
               /\ files["aurora"].forecast.level = "MODERATE"
        /\ (upstream["kyoto-dst.json"] = "data" /\ dstIndex = Num(H(-55))
                /\ Written("dst-data")) =>
               /\ files["dst-data"].current = Num(H(-55))
               /\ files["dst-data"].stormLevel = "Strong"
        /\ (kpIndex = KpReadings /\ pc = "wAurora") => ENABLED WriteAurora
        /\ (dstIndex = Num(H(-55)) /\ pc = "wDst") => ENABLED WriteDst

\* a completed run given both: the two documents are on disk
C16_Witness ==
    /\ Enhanced
    /\ pc = "done"
    /\ kpIndex = KpReadings
    /\ upstream["kyoto-dst.json"] = "data"
    /\ dstIndex = Num(H(-55))
    /\ files["aurora"].kpIndex = Num(630)
    /\ files["dst-data"].stormLevel = "Strong"

(***************************************************************************)
(* updateMeteorData (part_001, lines 320-482): the meteor document of a    *)
(* date, run twice on the same date with the same clock.  The random term  *)
(* of line 354 is a draw in hundredths.                                    *)
(***************************************************************************)

\* (Math.random() - 0.5) * 2 lies in [-1, 1): in hundredths, -100 .. 99
JitterSpan == 100

\* the draws taken: every JitterStep hundredths, and the largest one
JitterStep == 5
Draws == {d \in (-JitterSpan)..(JitterSpan - 1) : d % JitterStep = 0}
             \cup {JitterSpan - 1}

\* max: 10
MeteorMax == 10

\* the dates on either side of every comparison of the function
MeteorDates ==
    { <<1, 1>>, <<1, 5>>, <<1, 6>>, <<1, 10>>, <<1, 11>>,
      <<4, 15>>, <<4, 16>>, <<4, 25>>, <<4, 26>>,
      <<6, 15>>,
      <<8, 9>>, <<8, 10>>, <<8, 14>>, <<8, 15>>, <<8, 16>>,
      <<10, 15>>, <<10, 16>>, <<10, 20>>, <<10, 23>>, <<10, 24>>,
      <<10, 26>>, <<10, 27>>,
      <<11, 13>>, <<11, 14>>, <<11, 21>>, <<11, 22>>,
      <<12, 3>>, <<12, 4>>, <<12, 10>>, <<12, 16>>, <<12, 17>>, <<12, 18>> }

\* let currentActivity, activityLevel, description and the if chain on the date
BaseActivity(month, day) ==
    IF month = 1 /\ day >= 1 /\ day <= 5
    THEN [current |-> 850, activity |-> "High", description |-> "Quadrantids"]
    ELSE IF month = 8 /\ day >= 10 /\ day <= 15
    THEN [current |-> 900, activity |-> "Very High", description |-> "Perseids"]
    ELSE IF month = 12 /\ day >= 10 /\ day <= 16
    THEN [current |-> 950, activity |-> "Very High", description |-> "Geminids"]
    ELSE IF month = 10 /\ day >= 20 /\ day <= 23
    THEN [current |-> 650, activity |-> "Moderate", description |-> "Orionids"]
    ELSE [current |-> 350, activity |-> "Low", description |-> "background"]

Max(a, b) == IF a >= b THEN a ELSE b

\* the activity left as the draw made it
ClampSkipped(x) == x

\* Math.max(0, Math.min(10, currentActivity))
Clamp(x) == Max(0, Min(H(MeteorMax), x))

\* const activeShowers and its three pushes, in their order
ActiveShowers(month, day) ==
    (IF month = 12 /\ day >= 4 /\ day <= 17
     THEN <<[name |-> "Geminids", zhr |-> 150]>> ELSE <<>>)
    \o (IF month = 1 /\ day >= 1 /\ day <= 10
        THEN <<[name |-> "Quadrantids", zhr |-> 120]>> ELSE <<>>)
    \o (IF month = 8 /\ day >= 9 /\ day <= 14
        THEN <<[name |-> "Perseids", zhr |-> 100]>> ELSE <<>>)

\* let nextMajorShower
NextMajorShower(month) ==
    IF month >= 1 /\ month <= 3 THEN [name |-> "Lyrids", zhr |-> 18]
    ELSE IF month >= 4 /\ month <= 7 THEN [name |-> "Perseids", zhr |-> 100]
    ELSE [name |-> "Geminids", zhr |-> 150]

\* showers: the table of six showers with their active flags
Showers(month, day) ==
    << [name |-> "Quadrantids", zhr |-> 120, rating |-> 8,
        active |-> (month = 1 /\ day >= 1 /\ day <= 10)],
       [name |-> "Lyrids", zhr |-> 18, rating |-> 4,
        active |-> (month = 4 /\ day >= 16 /\ day <= 25)],
       [name |-> "Perseids", zhr |-> 100, rating |-> 7,
        active |-> (month = 8 /\ day >= 9 /\ day <= 14)],
       [name |-> "Orionids", zhr |-> 20, rating |-> 5,
        active |-> (month = 10 /\ day >= 16 /\ day <= 26)],
       [name |-> "Leonids", zhr |-> 15, rating |-> 3,
        active |-> (month = 11 /\ day >= 14 /\ day <= 21)],
       [name |-> "Geminids", zhr |-> 150, rating |-> 9,
        active |-> (month = 12 /\ day >= 4 /\ day <= 17)] >>

\* const meteorData, for the activity after the draw and the clamp
MeteorDoc(month, day, activity, updated) ==
    [current |-> parseFloat(ToFixed1(Num(activity))),
     max |-> Num(H(MeteorMax)),
     activity |-> BaseActivity(month, day).activity,
     description |-> BaseActivity(month, day).description,
     updated |-> updated,
     showers |-> Showers(month, day),
     activeShowers |-> ActiveShowers(month, day),
     nextMajorShower |-> <<NextMajorShower(month)>>]

\* the document the catch block returns
MeteorFallback(updated) ==
    [current |-> Num(350),
     max |-> Num(H(MeteorMax)),
     activity |-> "Low",
     description |-> "Background",
     updated |-> updated,
     showers |-> <<>>,
     activeShowers |-> <<>>,
     nextMajorShower |-> <<>>]

\* no run of updateMeteorData yet
NoRun == [written |-> FALSE, raw |-> 0, doc |-> NoDoc]

\* what is kept of the run before the last one: its document, and whether
\* it was saved
Earlier(run) == [written |-> run.written, doc |-> run.doc]

\* the first run, then the second
Rerun(op) == IF op = "none" THEN "first" ELSE "second"

MeteorInit ==
    /\ PipelineInit
    /\ clock = 1
    /\ join = JoinIdle
    /\ timed = TimedIdle
    /\ \E date \in MeteorDates :
           norm = [op |-> "none", month |-> date[1], day |-> date[2],
                   last |-> NoRun, prev |-> Earlier(NoRun), file |-> PrevDoc]

\* one run whose fs.writeFile succeeds: the document is saved and returned
UpdateMeteorData ==
    /\ norm.op # "second"
    /\ \E draw \in Draws :
           LET raw == BaseActivity(norm.month, norm.day).current + draw
               doc == MeteorDoc(norm.month, norm.day, Clamp(raw), ISO(clock))
           IN  norm' = [norm EXCEPT !.op = Rerun(norm.op),
                                    !.prev = Earlier(norm.last),
                                    !.last = [written |-> TRUE, raw |-> raw,
                                              doc |-> doc],
                                    !.file = doc]
    /\ UNCHANGED <<pipeline, join, timed>>

\* one run whose fs.writeFile throws: the catch block returns the fallback
UpdateMeteorDataCaught ==
    /\ norm.op # "second"
    /\ \E draw \in Draws :
           LET raw == BaseActivity(norm.month, norm.day).current + draw
           IN  norm' = [norm EXCEPT !.op = Rerun(norm.op),
                                    !.prev = Earlier(norm.last),
                                    !.last = [written |-> FALSE, raw |-> raw,
                                              doc |-> MeteorFallback(ISO(clock))]]
    /\ UNCHANGED <<pipeline, join, timed>>

MeteorNext ==
    \/ UpdateMeteorData
    \/ UpdateMeteorDataCaught

SpecMeteor == MeteorInit /\ [][MeteorNext]_vars

\* a document without its updated field
Body(doc) == [f \in (DOMAIN doc) \ {"updated"} |-> doc[f]]

\* C17: two runs of updateMeteorData on the same date with the same clock,
\* both of which saved their document, produced documents that agree in every
\* field other than updated.
C17_Deterministic ==
    (norm.last.written /\ norm.prev.written)
        => Body(norm.last.doc) = Body(norm.prev.doc)

\* C18: the current field of every meteor document a run returns is a number
\* from 0 to 10 and never above the document's max, which is 10; the activity
\* before the clamp is within 1 of the date's base value; and the saved
\* document carries that activity clamped to 0..10 and rounded to one decimal.
C18_MeteorBounded ==
    norm.op # "none" =>
        LET run == norm.last
            base == BaseActivity(norm.month, norm.day).current
        IN  /\ IsNum(run.doc.current)
            /\ run.doc.current[2] >= 0
            /\ run.doc.current[2] <= H(10)
            /\ run.doc.max = Num(H(10))
            /\ run.doc.current[2] <= run.doc.max[2]
            /\ Abs(run.raw - base) <= H(1)
            /\ run.written =>
                   /\ Abs(run.doc.current[2] - Max(0, Min(H(10), run.raw))) <= 5
                   /\ run.doc.current[2] % 10 = 0
                   /\ norm.file = run.doc

\* the Geminids peak with a draw that takes the activity over 10: the clamp
\* brings the saved document back to 10
C18_Witness ==
    /\ norm.op # "none"
    /\ norm.last.written
    /\ norm.last.raw > H(10)
    /\ norm.last.doc.current = Num(H(10))
    /\ norm.month = 12

----------------------------------------------------------------------------
(* The status document of fetchData and the sources of the run *)

\* the status document of a run in which every feed answered with an empty
\* list: every adapter leaves its default
QuietStatus(now) ==
    StatusDoc(CurrentKp(<<>>), <<"A", NumStr(0)>>, Num(0), <<>>, <<>>, now)

(* C19: the update-status document of a run reflects what happened in it:
   a run in which the fetch of some source failed writes a 'success' status
   that records the failure, so it is never the document written by a run
   in which every source answered, and its dataSources list is not the list
   of the run in which every source answered. *)
C19_StatusReflectsRun ==
    (Enhanced /\ Written("update-status") /\ LastStatus = "success"
         /\ files["update-status"].status = "success" /\ failed # {}) =>
        /\ files["update-status"] # QuietStatus(ISO(clock))
        /\ files["update-status"].dataSources # DataSources

----------------------------------------------------------------------------
(* The snapshots of one run of fetchData *)

\* the document of this run for a per-feed file, from the run's own values
ThisRunDoc(f) ==
    CASE f = "noaa-data" -> NoaaDoc(kpIndex, solarWind, solarFlares, ISO(clock))
      [] f = "aurora" -> AuroraDoc(currentKp, ISO(clock))
      [] f = "news" -> newsItems
      [] f = "xray-data" -> XrayDoc(xrayFlux, ISO(clock))
      [] f = "dst-data" -> DstDoc(dstIndex, ISO(clock))

\* how many times this run wrote the file
TimesWritten(f) == Cardinality({i \in DOMAIN writes : writes[i][1] = f})

(* C20 as stated: within one run each per-feed snapshot is written at most
   once, what is written is this run's document, and once the run is over
   every per-feed file holds this run's document, none being left over from
   an earlier run. *)
C20_Original ==
    Enhanced =>
        \A f \in PerFeedFiles :
            /\ TimesWritten(f) <= 1
            /\ Written(f) => files[f] = ThisRunDoc(f)
            /\ Terminal => Written(f) /\ files[f] = ThisRunDoc(f)

(* C20, amended: within one run each per-feed snapshot is written at most
   once and what is written is this run's document, computed from this
   run's values; when the run completes every per-feed file holds this
   run's document; when a write fails the run ends with the files it had
   already written holding this run's documents and every other per-feed
   file as it was before the run, or cut short by the failed write. *)
C20_WriteOnce ==
    Enhanced =>
        \A f \in PerFeedFiles :
            /\ TimesWritten(f) <= 1
            /\ Written(f) => files[f] = ThisRunDoc(f)
            /\ pc = "done" => Written(f)
            /\ ~Written(f) => files[f] \in {PrevDoc, Truncated}
            /\ files[f] = Truncated => caught = "ENOSPC"

\* a run that ended in the catch block after the disk filled up while it
\* wrote news.json: two snapshots are this run's, news.json is cut short and
\* two are left from the earlier run
C20_Witness ==
    /\ Enhanced
    /\ pc = "exited"
    /\ files["noaa-data"] = ThisRunDoc("noaa-data")
    /\ files["aurora"] = ThisRunDoc("aurora")
    /\ files["news"] = Truncated
    /\ files["xray-data"] = PrevDoc
    /\ files["dst-data"] = PrevDoc

----------------------------------------------------------------------------
(* The order of fetches and writes in fetchData *)

\* every adapter's fetch has settled: each primary endpoint was requested
\* and has answered or failed
AllSettled ==
    \A u \in PrimaryUrls : u \in Range(requests) /\ upstream[u] # "none"

(* C21: in a run of fetchData no snapshot document is written, in whole or
   in part, before the fetch of every adapter (Kp, solar wind, flares,
   X-ray, Dst, news) has settled. *)
C21_AssemblyAfterFetches ==
    Enhanced =>
        \A f \in Files : (Written(f) \/ files[f] # PrevDoc) => AllSettled

(* C22: whenever the update-status file holds a 'success' status written by
   this run of fetchData, every per-feed snapshot of the run (noaa-data,
   aurora, news, xray-data, dst-data) has already been written: no write of
   a snapshot is still to come, and none can still fail. *)
C22_SuccessAfterSnapshots ==
    (Enhanced /\ Written("update-status")
         /\ files["update-status"].status = "success") =>
        /\ \A f \in PerFeedFiles : Written(f)
        /\ pc \notin {"wXray", "wDst", "catch", "crashed"}

----------------------------------------------------------------------------
(* The showers of the meteor document *)

\* the name and rate of each entry of a list of showers
NameAndRate(list) == {[name |-> list[i].name, zhr |-> list[i].zhr] : i \in DOMAIN list}

\* the entries of the showers table whose active flag is true
Flagged(doc) == {i \in DOMAIN doc.showers : doc.showers[i].active}

(* C23: in the meteor document updateMeteorData saves, for every date the
   activeShowers list holds exactly the showers whose active flag is true
   in the showers table of the same document, with the same names and
   rates; and on a date for which some shower is flagged active the
   headline is not the label "Low" with the background description. *)
C23_ShowersAgree ==
    (norm.op # "none" /\ norm.last.written) =>
        LET doc == norm.last.doc
        IN  /\ NameAndRate(doc.activeShowers)
                 = {[name |-> doc.showers[i].name, zhr |-> doc.showers[i].zhr] :
                        i \in Flagged(doc)}
            /\ Len(doc.activeShowers) = Cardinality(Flagged(doc))
            /\ Flagged(doc) # {} =>
                   ~(doc.activity = "Low" /\ doc.description = "background")

----------------------------------------------------------------------------
(* The magnitude of the X-ray class within its decade *)

(* C24: for every flux classified B, C or M the magnitude printed in the
   class string is at least 1.0 and at most 9.9, so rounding to one decimal
   never prints a magnitude of 10.0, which belongs to the next letter; and
   xray-data.numeric, read back from the string, lies in the same range. *)
C24_MagnitudeInDecade ==
    (norm.op = "flux" /\ norm.out.class[1] \in {"B", "C", "M"}) =>
        /\ norm.out.class[2][1] = "nstr"
        /\ norm.out.class[2][2] >= H(1)
        /\ norm.out.class[2][2] <= 990
        /\ IsNum(norm.out.doc.numeric)
        /\ norm.out.doc.numeric[2] >= H(1)
        /\ norm.out.doc.numeric[2] <= 990
====
